---- MODULE Spec2Model ----
(***************************************************************************)
(* clidle: a terminal word-guessing game (src/clidle.c) built on a         *)
(* string-view library (src/sv.h).                                         *)
(*                                                                         *)
(* Bytes are ASCII codes.  A C string is the sequence of its bytes without *)
(* the terminator.  A string view (sv) is a record [ptr, len]: an offset   *)
(* into a byte region and a length; the region is passed explicitly to the *)
(* operators that read through the view.                                   *)
(***************************************************************************)
EXTENDS Integers, Sequences, FiniteSets, TLC

(***************************************************************************)
(* Program constants (src/clidle.c:20-24, 39-44, 78).                      *)
(***************************************************************************)
GUESSES == 6
LETTERS == 5
ALPHABET_SZ == 26
ASCII_A == 97
SOLUTION_INDEX == 0
WORDS_INDEX == 1
NL == 10
Y_START == 3

(***************************************************************************)
(* Bounds of the model.                                                    *)
(***************************************************************************)
\* longest byte buffer handed to the tokenizer harness
MaxBufLen == 5
\* number of distinct letters (a, b, ...) the scoring harness draws words from
QLetters == 3
\* number of alphabet entries the tracker harness updates
OvLetters == 2
\* largest value rand() returns
RandMax == 5
\* longest word asked of the loaded corpus, longest needle searched for
MaxQueryLen == 2
\* longest view handed to the library harness
MaxSvLen == 3
\* width in bits of size_t in the model
SizeBits == 4

\* enum GuessQuality
GuessQuality == {"RightPlace", "WrongPlace", "Wrong", "Unknown"}

\* the value of a char* that points to no string; a C string holds no byte 0
NULL == <<0>>

\* the value of an sv that was declared and never assigned
NoSv == [ptr |-> 0, len |-> 0]

(***************************************************************************)
(* String views (src/sv.h).                                                *)
(***************************************************************************)
\* sv.ptr[k] for a view into region m
SvAt(m, s, k) == m[s.ptr + k + 1]

\* the bytes a view designates
SvBytes(m, s) == [k \in 1..s.len |-> m[s.ptr + k]]

sv_from_data(ptr, len) == [ptr |-> ptr, len |-> len]

strlen(str) == Len(str)

\* sv_cstr_eq: same length and same bytes (the pointers never alias here:
\* the C string is a readline buffer, the view lies in a mapped file)
sv_cstr_eq(m, s, cstr) ==
    IF s.len # strlen(cstr) THEN FALSE
    ELSE \A k \in 0..(s.len - 1) : SvAt(m, s, k) = cstr[k + 1]

\* sv_chop_delim(delim, &in, &out): the values of the return, *in and *out
\* after the call.  i is the first index holding delim (outer loop), j the
\* length of the run of delims that starts there (inner loop).
sv_chop_delim(m, delim, in, out) ==
    IF in.len = 0
    THEN [ret |-> FALSE, in |-> in, out |-> out]
    ELSE LET hits == {i \in 0..(in.len - 1) : SvAt(m, in, i) = delim}
         IN  IF hits = {}
             THEN [ret |-> TRUE,
                   in  |-> [ptr |-> in.ptr, len |-> 0],
                   out |-> [ptr |-> in.ptr, len |-> in.len]]
             ELSE LET i == CHOOSE h \in hits : \A g \in hits : h <= g
                      stops == {e \in i..in.len :
                                   /\ \A k \in i..(e - 1) : SvAt(m, in, k) = delim
                                   /\ (e = in.len \/ SvAt(m, in, e) # delim)}
                      j == (CHOOSE e \in stops : TRUE) - i
                      olen == i
                  IN  [ret |-> TRUE,
                       out |-> [ptr |-> in.ptr, len |-> olen],
                       in  |-> [ptr |-> in.ptr + olen + j,
                                len |-> in.len - (olen + j)]]

(***************************************************************************)
(* The data of the session specification: the two word lists and the lines *)
(* the player types.  c=99 r=114 a=97 n=110 e=101 t=116 i=105 b=98 y=121   *)
(* z=122 s=115.                                                            *)
(***************************************************************************)
crane  == <<99, 114, 97, 110, 101>>
trace  == <<116, 114, 97, 99, 101>>
eerie  == <<101, 101, 114, 105, 101>>
abbey  == <<97, 98, 98, 101, 121>>
zebra  == <<122, 101, 98, 114, 97>>
cat    == <<99, 97, 116>>
cran   == <<99, 114, 97, 110>>
cranes == <<99, 114, 97, 110, 101, 115>>

\* words.txt: the valid guesses.  It also lists a 3-letter line.
WordsFile ==
    crane \o <<NL>> \o trace \o <<NL>> \o eerie \o <<NL>> \o abbey \o <<NL>>
          \o cat \o <<NL>>

\* solutions.txt: the candidate solutions.  Nothing in the code makes it a
\* subset of words.txt; zebra is a candidate that is no valid guess.
SolutionsFile == crane \o <<NL>> \o eerie \o <<NL>> \o zebra \o <<NL>>

\* what readline can return besides NULL: a line holds no newline
Lines == {<<>>, cran, cranes, cat, zebra, crane, trace, eerie, abbey}

(***************************************************************************)
(* State.                                                                  *)
(***************************************************************************)
VARIABLES
    mmap_register,  \* the bytes of the mapped files, by index
    words,          \* struct WordArray: [array, len]
    solution,       \* sv into mmap_register[SOLUTION_INDEX]
    alphabet,       \* struct CharInfo alphabet[ALPHABET_SZ], indexed from 0
    y,              \* cursor position on the y-axis
    i,              \* main's loop counter
    line,           \* main's line, NULL when readline returned none
    pc,             \* where main is: "read", "color", "ret_eof", "ret_won",
                    \* "ret_end", "abort"
    pos,            \* loop counter of color_word_and_update_alphabet
    quals,          \* qualities printed for the guess being colored
    msg,            \* the last message misinput showed ("" for none)
    revealed,       \* how many times "The word was: ..." was printed
    ret,            \* main's return value, -1 while it runs
    scored,         \* the guesses colored completely, in order
    ovOrig, ovNew, ovRes,  \* arguments and result of the last overrides call
    mem, delim,     \* tokenizer harness: the buffer and the delimiter
    chopIn, chopOut, chopRet,  \* *in, *out and the return of the last call
    yielded,        \* the views the calls have put into *out so far
    cpc,            \* "loop" while the caller's while loop runs, then "done"
    call,           \* library harness: the last call, [op, arguments]
    res             \* library harness: what the last call returned or wrote

sessVars == <<mmap_register, words, solution, alphabet, y, i, line, pc, pos,
              quals, msg, revealed, ret, scored, ovOrig, ovNew, ovRes>>
chopVars == <<mem, delim, chopIn, chopOut, chopRet, yielded, cpc, call, res>>
vars == <<sessVars, chopVars>>

(***************************************************************************)
(* clidle.c: initialisation.                                               *)
(***************************************************************************)
\* count_lines: the number of newline bytes of the file
count_lines(file) == Cardinality({k \in 1..Len(file) : file[k] = NL})

\* while (sv_chop_delim('\n', &file, &buf)) words[i++] = buf;
RECURSIVE ChopLoop(_, _, _, _)
ChopLoop(m, file, buf, arr) ==
    LET r == sv_chop_delim(m, NL, file, buf)
    IN  IF r.ret THEN ChopLoop(m, r.in, r.out, Append(arr, r.out)) ELSE arr

init_words(file) ==
    [array |-> ChopLoop(file, sv_from_data(0, Len(file)), NoSv, <<>>),
     len   |-> count_lines(file)]

\* choose_solution with rand() returning r
choose_solution(file, r) ==
    LET lines == count_lines(file)
        w     == ChopLoop(file, sv_from_data(0, Len(file)), NoSv, <<>>)
    IN  w[(r % lines) + 1]

init_alphabet ==
    [c \in 0..(ALPHABET_SZ - 1) |-> [chr |-> c + ASCII_A, quality |-> "Unknown"]]

(***************************************************************************)
(* clidle.c: validation, scoring and the alphabet.                         *)
(***************************************************************************)
valid(word) ==
    \E k \in 0..(words.len - 1) :
        sv_cstr_eq(mmap_register[WORDS_INDEX], words.array[k + 1], word)

\* qualify_guess without the test that the letter was not guessed correctly
\* at the place where the solution holds it
qualify_guess_nocheck(guess, index) ==
    LET c == guess[index + 1]
        m == mmap_register[SOLUTION_INDEX]
    IN  IF SvAt(m, solution, index) = c
        THEN "RightPlace"
        ELSE IF \E k \in 0..(LETTERS - 1) : SvAt(m, solution, k) = c
             THEN "WrongPlace"
             ELSE "Wrong"

\* qualify_guess scanning the solution only behind index
qualify_guess_behind(guess, index) ==
    LET c == guess[index + 1]
        m == mmap_register[SOLUTION_INDEX]
    IN  IF SvAt(m, solution, index) = c
        THEN "RightPlace"
        ELSE IF \E k \in (index + 1)..(LETTERS - 1) :
                    SvAt(m, solution, k) = c /\ guess[k + 1] # c
             THEN "WrongPlace"
             ELSE "Wrong"

\* qualify_guess answering Unknown for a letter the solution does not hold
qualify_guess_unknown(guess, index) ==
    LET c == guess[index + 1]
        m == mmap_register[SOLUTION_INDEX]
    IN  IF SvAt(m, solution, index) = c
        THEN "RightPlace"
        ELSE IF \E k \in 0..(LETTERS - 1) :
                    SvAt(m, solution, k) = c /\ guess[k + 1] # c
             THEN "WrongPlace"
             ELSE "Unknown"

\* qualify_guess giving WrongPlace only while the places of the solution
\* that hold the letter and were not guessed outnumber the wrong places of
\* the letter before index
qualify_guess_budget(guess, index) ==
    LET c == guess[index + 1]
        m == mmap_register[SOLUTION_INDEX]
        open == {k \in 0..(LETTERS - 1) :
                    SvAt(m, solution, k) = c /\ guess[k + 1] # c}
        used == {k \in 0..(index - 1) :
                    guess[k + 1] = c /\ SvAt(m, solution, k) # c}
    IN  IF SvAt(m, solution, index) = c
        THEN "RightPlace"
        ELSE IF Cardinality(used) < Cardinality(open)
             THEN "WrongPlace"
             ELSE "Wrong"

\* qualify_guess(guess, index); guess is a C string, index counts from 0
qualify_guess(guess, index) ==
    LET c == guess[index + 1]
        m == mmap_register[SOLUTION_INDEX]
    IN  IF SvAt(m, solution, index) = c
        THEN "RightPlace"
        ELSE IF \E k \in 0..(LETTERS - 1) :
                    SvAt(m, solution, k) = c /\ guess[k + 1] # c
             THEN "WrongPlace"
             ELSE "Wrong"

\* the assertion overrides opens with
overrides_assert(new) == new # "Unknown"

\* overrides that lets every quality replace a green one
overrides_green(orig, new) ==
    IF orig = "RightPlace" THEN TRUE
    ELSE IF orig = "Unknown" \/ orig = "Wrong" THEN TRUE
    ELSE IF orig = "WrongPlace" /\ new = "RightPlace" THEN TRUE
    ELSE FALSE

\* overrides that lets every quality replace a yellow one
overrides_yellow(orig, new) ==
    IF orig = "RightPlace" THEN FALSE
    ELSE IF orig = "Unknown" \/ orig = "Wrong" THEN TRUE
    ELSE IF orig = "WrongPlace" THEN TRUE
    ELSE FALSE

\* overrides that never replaces a yellow quality
overrides_noupgrade(orig, new) ==
    IF orig = "RightPlace" THEN FALSE
    ELSE IF orig = "Unknown" \/ orig = "Wrong" THEN TRUE
    ELSE FALSE

\* overrides(orig, new), past its assertion
overrides(orig, new) ==
    IF orig = "RightPlace" THEN FALSE
    ELSE IF orig = "Unknown" \/ orig = "Wrong" THEN TRUE
    ELSE IF orig = "WrongPlace" /\ new = "RightPlace" THEN TRUE
    ELSE FALSE

\* check_correct comparing the lengths only
check_correct_len(guess) == solution.len = strlen(guess)

check_correct(guess) ==
    sv_cstr_eq(mmap_register[SOLUTION_INDEX], solution, guess)

\* strcspn(str, "\n"): the length of the prefix holding no newline
strcspn(str) ==
    LET hits == {k \in 1..Len(str) : str[k] = NL}
    IN  IF hits = {} THEN Len(str)
        ELSE (CHOOSE h \in hits : \A g \in hits : h <= g) - 1

\* line[strcspn(line, "\n")] = '\0'
CutAtNewline(str) == SubSeq(str, 1, strcspn(str))

\* the alphabet lines of color_word_and_update_alphabet for the letter with
\* index c and its quality: the overrides call and the assignment it guards
UpdateAlphabet(c, quality) ==
    IF ~overrides_assert(quality)
    THEN /\ pc' = "abort"
         /\ UNCHANGED <<alphabet, ovOrig, ovNew, ovRes>>
    ELSE /\ ovOrig' = alphabet[c].quality
         /\ ovNew' = quality
         /\ ovRes' = overrides(alphabet[c].quality, quality)
         /\ alphabet' = IF overrides(alphabet[c].quality, quality)
                        THEN [alphabet EXCEPT ![c].quality = quality]
                        ELSE alphabet
         /\ pc' = pc

(***************************************************************************)
(* clidle.c: main's loop.  One ReadLine step is one readline call and what *)
(* main does with the line up to the next readline, to the coloring of a   *)
(* valid guess, or to its return.                                          *)
(***************************************************************************)
\* readline returned NULL and main leaves the loop by break instead of return
ReadEof_break ==
    /\ line' = NULL
    /\ pc' = "ret_end"
    /\ revealed' = revealed + 1
    /\ ret' = 0
    /\ UNCHANGED <<i, y, msg, pos, quals>>

\* readline returned NULL: return 0
ReadEof ==
    /\ line' = NULL
    /\ pc' = "ret_eof"
    /\ ret' = 0
    /\ UNCHANGED <<i, y, msg, revealed, pos, quals>>

\* the empty line: i -= 1; continue (which runs i++ and the loop test)
EmptyLine(l) ==
    /\ line' = l
    /\ i' = (i - 1) + 1
    /\ pc' = IF (i - 1) + 1 < GUESSES THEN "read" ELSE "ret_end"
    /\ revealed' = IF (i - 1) + 1 < GUESSES THEN revealed ELSE revealed + 1
    /\ ret' = IF (i - 1) + 1 < GUESSES THEN ret ELSE 0
    /\ UNCHANGED <<y, msg, pos, quals>>

\* misinput(m) without the i -= 1 that follows it
Misinput_counts(l, m) ==
    /\ line' = l
    /\ msg' = m
    /\ i' = i + 1
    /\ pc' = IF i + 1 < GUESSES THEN "read" ELSE "ret_end"
    /\ revealed' = IF i + 1 < GUESSES THEN revealed ELSE revealed + 1
    /\ ret' = IF i + 1 < GUESSES THEN ret ELSE 0
    /\ UNCHANGED <<y, pos, quals>>

\* misinput(m); i -= 1; then free(line), i++ and the loop test
Misinput(l, m) ==
    /\ line' = l
    /\ msg' = m
    /\ i' = (i - 1) + 1
    /\ pc' = IF (i - 1) + 1 < GUESSES THEN "read" ELSE "ret_end"
    /\ revealed' = IF (i - 1) + 1 < GUESSES THEN revealed ELSE revealed + 1
    /\ ret' = IF (i - 1) + 1 < GUESSES THEN ret ELSE 0
    /\ UNCHANGED <<y, pos, quals>>

\* a valid guess: color_word_and_update_alphabet(line) is entered
Accept(l) ==
    /\ line' = l
    /\ pc' = "color"
    /\ pos' = 0
    /\ quals' = <<>>
    /\ UNCHANGED <<i, y, msg, revealed, ret>>

\* the loop body with the word list consulted before the length
ReadLine_listfirst ==
    /\ pc = "read"
    /\ \E l \in Lines \cup {NULL} :
          IF l = NULL THEN ReadEof
          ELSE IF strlen(l) = 0 THEN EmptyLine(l)
          ELSE LET t == CutAtNewline(l)
               IN  IF ~valid(t) THEN Misinput(t, "Not in word list")
                   ELSE IF strlen(t) # LETTERS THEN Misinput(t, "Wrong length")
                   ELSE Accept(t)
    /\ UNCHANGED <<mmap_register, words, solution, alphabet, scored,
                   ovOrig, ovNew, ovRes>>
    /\ UNCHANGED chopVars

\* one pass of the loop body of main up to the call of
\* color_word_and_update_alphabet
ReadLine ==
    /\ pc = "read"
    /\ \E l \in Lines \cup {NULL} :
          IF l = NULL THEN ReadEof
          ELSE IF strlen(l) = 0 THEN EmptyLine(l)
          ELSE LET t == CutAtNewline(l)
               IN  IF strlen(t) # LETTERS THEN Misinput(t, "Wrong length")
                   ELSE IF ~valid(t) THEN Misinput(t, "Not in word list")
                   ELSE Accept(t)
    /\ UNCHANGED <<mmap_register, words, solution, alphabet, scored,
                   ovOrig, ovNew, ovRes>>
    /\ UNCHANGED chopVars

\* one iteration of the loop of color_word_and_update_alphabet
ColorStep ==
    /\ pc = "color"
    /\ pos < LETTERS
    /\ LET quality == qualify_guess(line, pos)
       IN  /\ quals' = Append(quals, quality)
           /\ UpdateAlphabet(line[pos + 1] - ASCII_A, quality)
    /\ pos' = pos + 1
    /\ UNCHANGED <<mmap_register, words, solution, y, i, line, msg, revealed,
                   ret, scored>>
    /\ UNCHANGED chopVars

\* AfterColor that leaves the loop counter alone after a miss
AfterColor_nocount ==
    /\ pc = "color"
    /\ pos = LETTERS
    /\ scored' = Append(scored, line)
    /\ IF check_correct(line)
       THEN /\ pc' = "ret_won"
            /\ ret' = 0
            /\ UNCHANGED <<i, y, revealed>>
       ELSE /\ y' = y + 1
            /\ i' = i
            /\ pc' = IF i < GUESSES THEN "read" ELSE "ret_end"
            /\ revealed' = IF i < GUESSES THEN revealed ELSE revealed + 1
            /\ ret' = IF i < GUESSES THEN ret ELSE 0
    /\ UNCHANGED <<mmap_register, words, solution, alphabet, line, pos, quals,
                   msg, ovOrig, ovNew, ovRes>>
    /\ UNCHANGED chopVars

\* AfterColor leaving the loop by break, not return, on the right word
AfterColor_break ==
    /\ pc = "color"
    /\ pos = LETTERS
    /\ scored' = Append(scored, line)
    /\ IF check_correct(line)
       THEN /\ pc' = "ret_end"
            /\ revealed' = revealed + 1
            /\ ret' = 0
            /\ UNCHANGED <<i, y>>
       ELSE /\ y' = y + 1
            /\ i' = i + 1
            /\ pc' = IF i + 1 < GUESSES THEN "read" ELSE "ret_end"
            /\ revealed' = IF i + 1 < GUESSES THEN revealed ELSE revealed + 1
            /\ ret' = IF i + 1 < GUESSES THEN ret ELSE 0
    /\ UNCHANGED <<mmap_register, words, solution, alphabet, line, pos, quals,
                   msg, ovOrig, ovNew, ovRes>>
    /\ UNCHANGED chopVars

\* AfterColor with the loop test i <= GUESSES
AfterColor_seven ==
    /\ pc = "color"
    /\ pos = LETTERS
    /\ scored' = Append(scored, line)
    /\ IF check_correct(line)
       THEN /\ pc' = "ret_won"
            /\ ret' = 0
            /\ UNCHANGED <<i, y, revealed>>
       ELSE /\ y' = y + 1
            /\ i' = i + 1
            /\ pc' = IF i + 1 <= GUESSES THEN "read" ELSE "ret_end"
            /\ revealed' = IF i + 1 <= GUESSES THEN revealed ELSE revealed + 1
            /\ ret' = IF i + 1 <= GUESSES THEN ret ELSE 0
    /\ UNCHANGED <<mmap_register, words, solution, alphabet, line, pos, quals,
                   msg, ovOrig, ovNew, ovRes>>
    /\ UNCHANGED chopVars

\* after the coloring loop: check_correct, y += 1, i++, the loop test and,
\* when the loop ends, the printing of the solution
AfterColor ==
    /\ pc = "color"
    /\ pos = LETTERS
    /\ scored' = Append(scored, line)
    /\ IF check_correct(line)
       THEN /\ pc' = "ret_won"
            /\ ret' = 0
            /\ UNCHANGED <<i, y, revealed>>
       ELSE /\ y' = y + 1
            /\ i' = i + 1
            /\ pc' = IF i + 1 < GUESSES THEN "read" ELSE "ret_end"
            /\ revealed' = IF i + 1 < GUESSES THEN revealed ELSE revealed + 1
            /\ ret' = IF i + 1 < GUESSES THEN ret ELSE 0
    /\ UNCHANGED <<mmap_register, words, solution, alphabet, line, pos, quals,
                   msg, ovOrig, ovNew, ovRes>>
    /\ UNCHANGED chopVars

\* the tokenizer harness is idle in the session
ChopIdle ==
    /\ mem = <<>>
    /\ delim = NL
    /\ chopIn = NoSv
    /\ chopOut = NoSv
    /\ chopRet = FALSE
    /\ yielded = <<>>
    /\ cpc = "done"
    /\ call = [op |-> "none"]
    /\ res = [op |-> "none"]

\* main up to the first readline: init_alphabet, init_words, choose_solution
Init ==
    /\ mmap_register = (SOLUTION_INDEX :> SolutionsFile) @@ (WORDS_INDEX :> WordsFile)
    /\ words = init_words(WordsFile)
    /\ \E r \in 0..RandMax : solution = choose_solution(SolutionsFile, r)
    /\ alphabet = init_alphabet
    /\ y = Y_START
    /\ i = 0
    /\ line = NULL
    /\ pc = "read"
    /\ pos = 0
    /\ quals = <<>>
    /\ msg = ""
    /\ revealed = 0
    /\ ret = -1
    /\ scored = <<>>
    /\ ovOrig = "Unknown"
    /\ ovNew = "Unknown"
    /\ ovRes = FALSE
    /\ ChopIdle

Next == ReadLine \/ ColorStep \/ AfterColor

Spec == Init /\ [][Next]_vars

\* the session as the program runs it: between two calls of readline the
\* coloring of a guess and the end of the loop body are not held up
SpecLive == Spec /\ WF_vars(ColorStep) /\ WF_vars(AfterColor)

(***************************************************************************)
(* The scoring loop on every pair of words: the session placed at the      *)
(* entry of color_word_and_update_alphabet with line = guess, for every    *)
(* solution and guess over the first QLetters letters.                     *)
(***************************************************************************)
QChars == {ASCII_A + k : k \in 0..(QLetters - 1)}
QWords == [1..LETTERS -> QChars]

InitQualify ==
    /\ \E sol \in QWords, guess \in QWords :
          /\ mmap_register = (SOLUTION_INDEX :> (sol \o <<NL>>))
                                @@ (WORDS_INDEX :> (guess \o <<NL>>))
          /\ words = init_words(guess \o <<NL>>)
          /\ solution = choose_solution(sol \o <<NL>>, 0)
          /\ line = guess
    /\ alphabet = init_alphabet
    /\ y = Y_START
    /\ i = 0
    /\ pc = "color"
    /\ pos = 0
    /\ quals = <<>>
    /\ msg = ""
    /\ revealed = 0
    /\ ret = -1
    /\ scored = <<>>
    /\ ovOrig = "Unknown"
    /\ ovNew = "Unknown"
    /\ ovRes = FALSE
    /\ ChopIdle

NextQualify == ColorStep

SpecQualify == InitQualify /\ [][NextQualify]_vars

(***************************************************************************)
(* The alphabet tracker on every letter and proposed quality: the lines of *)
(* color_word_and_update_alphabet that call overrides and assign, applied  *)
(* to the first OvLetters alphabet entries.                                *)
(***************************************************************************)
TrackerUpdate ==
    /\ pc = "color"
    /\ \E c \in 0..(OvLetters - 1), q \in GuessQuality : UpdateAlphabet(c, q)
    /\ UNCHANGED <<mmap_register, words, solution, y, i, line, pos, quals,
                   msg, revealed, ret, scored>>
    /\ UNCHANGED chopVars

\* a session inside color_word_and_update_alphabet, nothing scored yet
InitTracker ==
    /\ mmap_register = (SOLUTION_INDEX :> SolutionsFile) @@ (WORDS_INDEX :> WordsFile)
    /\ words = init_words(WordsFile)
    /\ \E r \in 0..RandMax : solution = choose_solution(SolutionsFile, r)
    /\ alphabet = init_alphabet
    /\ y = Y_START
    /\ i = 0
    /\ line \in {crane, abbey}
    /\ pc = "color"
    /\ pos = 0
    /\ quals = <<>>
    /\ msg = ""
    /\ revealed = 0
    /\ ret = -1
    /\ scored = <<>>
    /\ ovOrig = "Unknown"
    /\ ovNew = "Unknown"
    /\ ovRes = FALSE
    /\ ChopIdle

NextTracker == TrackerUpdate

SpecTracker == InitTracker /\ [][NextTracker]_vars

(***************************************************************************)
(* The tokenizer on every buffer: the caller's loop                        *)
(*     while (sv_chop_delim(delim, &in, &out)) ...                         *)
(* over every buffer of at most MaxBufLen bytes.                           *)
(***************************************************************************)
ChopBytes == {NL, 97, 98}
ChopDelims == {NL, 97}

RECURSIVE Buffers(_)
Buffers(n) ==
    IF n = 0 THEN {<<>>}
    ELSE Buffers(n - 1)
         \cup {Append(b, c) : b \in {x \in Buffers(n - 1) : Len(x) = n - 1},
                              c \in ChopBytes}

\* the session is idle in the tokenizer harness
SessIdle ==
    /\ mmap_register = (SOLUTION_INDEX :> <<>>) @@ (WORDS_INDEX :> <<>>)
    /\ words = [array |-> <<>>, len |-> 0]
    /\ solution = NoSv
    /\ alphabet = init_alphabet
    /\ y = Y_START
    /\ i = 0
    /\ line = NULL
    /\ pc = "init"
    /\ pos = 0
    /\ quals = <<>>
    /\ msg = ""
    /\ revealed = 0
    /\ ret = -1
    /\ scored = <<>>
    /\ ovOrig = "Unknown"
    /\ ovNew = "Unknown"
    /\ ovRes = FALSE

InitChop ==
    /\ mem \in Buffers(MaxBufLen)
    /\ delim \in ChopDelims
    /\ chopIn = sv_from_data(0, Len(mem))
    /\ chopOut = NoSv
    /\ chopRet = FALSE
    /\ yielded = <<>>
    /\ cpc = "loop"
    /\ call = [op |-> "none"]
    /\ res = [op |-> "none"]
    /\ SessIdle

\* one evaluation of the loop condition and, when it holds, the loop body
ChopCall ==
    /\ cpc = "loop"
    /\ LET r == sv_chop_delim(mem, delim, chopIn, chopOut)
       IN  /\ chopIn' = r.in
           /\ chopOut' = r.out
           /\ chopRet' = r.ret
           /\ yielded' = IF r.ret THEN Append(yielded, r.out) ELSE yielded
           /\ cpc' = IF r.ret THEN "loop" ELSE "done"
    /\ UNCHANGED <<mem, delim, call, res>>
    /\ UNCHANGED sessVars

NextChop == ChopCall

SpecChop == InitChop /\ [][NextChop]_vars

(***************************************************************************)
(* sv.h: size_t arithmetic, substrings, chopping, searching, copying.      *)
(***************************************************************************)
SizeMod == 2 ^ SizeBits
SIZE_MAX == SizeMod - 1
SV_END_POS == SIZE_MAX

\* sv_substr(beg, len, in); beg + len is computed in size_t
sv_substr(beg, len, in) ==
    IF len = 0 \/ beg > in.len
    THEN NoSv
    ELSE [ptr |-> in.ptr + beg,
          len |-> IF len = SV_END_POS \/ (beg + len) % SizeMod > in.len
                  THEN (in.len - beg) % SizeMod
                  ELSE len]

\* sv_chopl without the test n >= sv->len
sv_chopl_wraps(n, s) ==
    IF n = 0 THEN s
    ELSE [ptr |-> s.ptr + n, len |-> (s.len - n) % SizeMod]

\* sv_chopl(n, &sv): the view afterwards
sv_chopl(n, s) ==
    IF n = 0 THEN s
    ELSE IF n >= s.len THEN [ptr |-> s.ptr, len |-> 0]
    ELSE [ptr |-> s.ptr + n, len |-> (s.len - n) % SizeMod]

\* sv_chopr(n, &sv): the view afterwards
sv_chopr(n, s) ==
    IF n = 0 THEN s
    ELSE IF n >= s.len THEN [ptr |-> s.ptr, len |-> 0]
    ELSE [ptr |-> s.ptr, len |-> (s.len - n) % SizeMod]

\* memcmp(sv.ptr + k, search.ptr, search.len) == 0
MemEq(m, s, k, sm, search) ==
    \A d \in 0..(search.len - 1) : SvAt(m, s, k + d) = SvAt(sm, search, d)

\* the loop of sv_idx_long from index k on: the return value and the
\* indices of sv the loop read
RECURSIVE IdxLoop(_, _, _, _, _, _, _)
IdxLoop(sm, search, m, s, k, bound, reads) ==
    IF ~(k < bound)
    THEN [ret |-> SV_END_POS, reads |-> reads]
    ELSE IF SvAt(m, s, k) = SvAt(sm, search, 0)
         THEN IF MemEq(m, s, k, sm, search)
              THEN [ret |-> k, reads |-> reads \cup (k..(k + search.len - 1))]
              ELSE IdxLoop(sm, search, m, s, (k + 1) % SizeMod, bound,
                           reads \cup (k..(k + search.len - 1)))
         ELSE IdxLoop(sm, search, m, s, (k + 1) % SizeMod, bound, reads \cup {k})

\* sv_idx_long with the loop bound sv.len - search.len
sv_idx_long_short(sm, search, m, s) ==
    IF search.len = 0 \/ search.len > s.len
    THEN [ret |-> SV_END_POS, reads |-> {}]
    ELSE IdxLoop(sm, search, m, s, 0, (s.len - search.len) % SizeMod, {})

\* sv_idx_long(search, sv); sm and m are the regions of search and sv
sv_idx_long(sm, search, m, s) ==
    IF search.len = 0 \/ search.len > s.len
    THEN [ret |-> SV_END_POS, reads |-> {}]
    ELSE IdxLoop(sm, search, m, s, 0, (s.len - search.len + 1) % SizeMod, {})

\* the loop of sv_last_idx_long from index k down; k - 1 wraps below 0
RECURSIVE LastIdxLoop(_, _, _, _, _, _)
LastIdxLoop(sm, search, m, s, k, reads) ==
    IF ~(k < s.len)
    THEN [ret |-> SV_END_POS, reads |-> reads]
    ELSE IF SvAt(m, s, k) = SvAt(sm, search, 0)
         THEN IF MemEq(m, s, k, sm, search)
              THEN [ret |-> k, reads |-> reads \cup (k..(k + search.len - 1))]
              ELSE LastIdxLoop(sm, search, m, s, (k - 1) % SizeMod,
                               reads \cup (k..(k + search.len - 1)))
         ELSE LastIdxLoop(sm, search, m, s, (k - 1) % SizeMod, reads \cup {k})

\* sv_last_idx_long(search, sv)
sv_last_idx_long(sm, search, m, s) ==
    IF search.len = 0 \/ search.len > s.len
    THEN [ret |-> SV_END_POS, reads |-> {}]
    ELSE LastIdxLoop(sm, search, m, s, (s.len - search.len) % SizeMod, {})

\* sv_to_cstr(sv, buf, buflen): the number of bytes memcpy copies and the
\* index the terminator is written to
sv_to_cstr(s, buflen) ==
    LET len == IF s.len >= buflen THEN (buflen - 1) % SizeMod ELSE s.len
    IN  [copied |-> len, terminator |-> len]

(***************************************************************************)
(* The library on every small input: calls on the view of a whole buffer   *)
(* of at most MaxSvLen bytes, with every size_t argument, one call per     *)
(* behaviour.                                                              *)
(***************************************************************************)
SizeT == 0..SIZE_MAX

InitSv ==
    /\ mem \in Buffers(MaxSvLen)
    /\ delim = NL
    /\ chopIn = sv_from_data(0, Len(mem))
    /\ chopOut = NoSv
    /\ chopRet = FALSE
    /\ yielded = <<>>
    /\ cpc = "done"
    /\ call = [op |-> "none"]
    /\ res = [op |-> "none"]
    /\ SessIdle

CallSubstr ==
    /\ call.op = "none"
    /\ \E beg \in SizeT, len \in SizeT :
          /\ call' = [op |-> "sv_substr", beg |-> beg, len |-> len]
          /\ res' = [op |-> "sv_substr", sv |-> sv_substr(beg, len, chopIn)]
    /\ UNCHANGED <<mem, delim, chopIn, chopOut, chopRet, yielded, cpc>>
    /\ UNCHANGED sessVars

CallChopl ==
    /\ call.op = "none"
    /\ \E n \in SizeT :
          /\ call' = [op |-> "sv_chopl", n |-> n]
          /\ res' = [op |-> "sv_chopl", sv |-> sv_chopl(n, chopIn)]
    /\ UNCHANGED <<mem, delim, chopIn, chopOut, chopRet, yielded, cpc>>
    /\ UNCHANGED sessVars

CallChopr ==
    /\ call.op = "none"
    /\ \E n \in SizeT :
          /\ call' = [op |-> "sv_chopr", n |-> n]
          /\ res' = [op |-> "sv_chopr", sv |-> sv_chopr(n, chopIn)]
    /\ UNCHANGED <<mem, delim, chopIn, chopOut, chopRet, yielded, cpc>>
    /\ UNCHANGED sessVars

CallIdxLong ==
    /\ call.op = "none"
    /\ \E needle \in Buffers(MaxQueryLen) :
          LET r == sv_idx_long(needle, sv_from_data(0, Len(needle)), mem, chopIn)
          IN  /\ call' = [op |-> "sv_idx_long", search |-> needle]
              /\ res' = [op |-> "sv_idx_long", ret |-> r.ret, reads |-> r.reads]
    /\ UNCHANGED <<mem, delim, chopIn, chopOut, chopRet, yielded, cpc>>
    /\ UNCHANGED sessVars

CallLastIdxLong ==
    /\ call.op = "none"
    /\ \E needle \in Buffers(MaxQueryLen) :
          LET r == sv_last_idx_long(needle, sv_from_data(0, Len(needle)), mem, chopIn)
          IN  /\ call' = [op |-> "sv_last_idx_long", search |-> needle]
              /\ res' = [op |-> "sv_last_idx_long", ret |-> r.ret, reads |-> r.reads]
    /\ UNCHANGED <<mem, delim, chopIn, chopOut, chopRet, yielded, cpc>>
    /\ UNCHANGED sessVars

CallToCstr ==
    /\ call.op = "none"
    /\ \E buflen \in SizeT :
          LET r == sv_to_cstr(chopIn, buflen)
          IN  /\ call' = [op |-> "sv_to_cstr", buflen |-> buflen]
              /\ res' = [op |-> "sv_to_cstr", copied |-> r.copied,
                         terminator |-> r.terminator]
    /\ UNCHANGED <<mem, delim, chopIn, chopOut, chopRet, yielded, cpc>>
    /\ UNCHANGED sessVars

NextSv ==
    \/ CallSubstr
    \/ CallChopl
    \/ CallChopr
    \/ CallIdxLong
    \/ CallLastIdxLong
    \/ CallToCstr

SpecSv == InitSv /\ [][NextSv]_vars

(***************************************************************************)
(* The corpus loaded from every buffer: the state after init_words on a    *)
(* words.txt of at most MaxBufLen bytes, then calls of valid.              *)
(***************************************************************************)
\* what an entry of words.array that init_words never assigned may hold:
\* malloc does not initialise the array
JunkSvs(file) == {NoSv, sv_from_data(0, Len(file))}

\* words after init_words, the entries below words.len that the loop did not
\* reach holding junk
PadUninit(w, junk) ==
    [array |-> IF Len(w.array) < w.len
               THEN w.array \o [k \in 1..(w.len - Len(w.array)) |-> junk]
               ELSE w.array,
     len   |-> w.len]

\* the words valid is asked about: no newline in them
LoadQueries == {b \in Buffers(MaxQueryLen) : \A k \in 1..Len(b) : b[k] # NL}

InitLoad ==
    /\ \E file \in Buffers(MaxBufLen) :
          /\ mmap_register = (SOLUTION_INDEX :> <<>>) @@ (WORDS_INDEX :> file)
          /\ \E junk \in JunkSvs(file) :
                words = PadUninit(init_words(file), junk)
          /\ mem = file
          /\ yielded = ChopLoop(file, sv_from_data(0, Len(file)), NoSv, <<>>)
    /\ delim = NL
    /\ chopIn = NoSv
    /\ chopOut = NoSv
    /\ chopRet = FALSE
    /\ cpc = "done"
    /\ call = [op |-> "none"]
    /\ res = [op |-> "none"]
    /\ solution = NoSv
    /\ alphabet = init_alphabet
    /\ y = Y_START
    /\ i = 0
    /\ line = NULL
    /\ pc = "init"
    /\ pos = 0
    /\ quals = <<>>
    /\ msg = ""
    /\ revealed = 0
    /\ ret = -1
    /\ scored = <<>>
    /\ ovOrig = "Unknown"
    /\ ovNew = "Unknown"
    /\ ovRes = FALSE

\* one call valid(word)
ContainsCall ==
    /\ \E word \in LoadQueries :
          /\ call' = [op |-> "valid", word |-> word]
          /\ res' = [op |-> "valid", ret |-> valid(word)]
    /\ UNCHANGED <<mem, delim, chopIn, chopOut, chopRet, yielded, cpc>>
    /\ UNCHANGED sessVars

NextLoad == ContainsCall

SpecLoad == InitLoad /\ [][NextLoad]_vars

(***************************************************************************)
(* Reference notions the properties are stated with.                       *)
(***************************************************************************)
\* the maximal runs of bytes other than d in m, in order
RefRuns(m, d) ==
    LET starts == {k \in 1..Len(m) : m[k] # d /\ (k = 1 \/ m[k - 1] = d)}
        EndOf(s) == CHOOSE e \in s..Len(m) :
                        /\ \A k \in s..e : m[k] # d
                        /\ (e = Len(m) \/ m[e + 1] = d)
        Nth(n) == CHOOSE s \in starts : Cardinality({t \in starts : t < s}) = n - 1
    IN  [n \in 1..Cardinality(starts) |-> SubSeq(m, Nth(n), EndOf(Nth(n)))]

\* the bytes of the views yielded so far
YieldedBytes == [n \in 1..Len(yielded) |-> SvBytes(mem, yielded[n])]

\* the solution as a string
SolutionText == SvBytes(mmap_register[SOLUTION_INDEX], solution)

\* the quality of guess[p] against sol by the rule of the specification,
\* p counting from 0
RefQualify(guess, sol, p) ==
    IF guess[p + 1] = sol[p + 1] THEN "RightPlace"
    ELSE IF \E j \in 1..Len(sol) : sol[j] = guess[p + 1] /\ guess[j] # sol[j]
         THEN "WrongPlace"
         ELSE "Wrong"

\* the decision table of the override rule
RefOverrides(current, proposed) ==
    CASE current = "RightPlace" -> FALSE
      [] current \in {"Unknown", "Wrong"} -> TRUE
      [] current = "WrongPlace" -> (proposed = "RightPlace")

Determined == GuessQuality \ {"Unknown"}

\* the order Unknown < Wrong < WrongPlace < RightPlace
Rank(q) ==
    CASE q = "Unknown" -> 0
      [] q = "Wrong" -> 1
      [] q = "WrongPlace" -> 2
      [] q = "RightPlace" -> 3

\* the non-empty lines of words.txt, as a set of strings
RefCorpus ==
    LET runs == RefRuns(mmap_register[WORDS_INDEX], NL)
    IN  {runs[n] : n \in 1..Len(runs)}

\* a line the session rejects: empty, not of 5 letters, or not a valid guess
RefRejected(l) == l = <<>> \/ Len(l) # LETTERS \/ l \notin RefCorpus

\* the scored guesses that differ from the solution
Misses == Cardinality({k \in 1..Len(scored) : scored[k] # SolutionText})

\* the quality the alphabet holds for the letter with ASCII code ch
QualityOf(ch) == alphabet[ch - ASCII_A].quality

(***************************************************************************)
(* C1.  A step that reads a rejected line (empty, of a length other than   *)
(* 5, or of 5 letters and not in the valid-guess list) leaves the attempt  *)
(* counter, all 26 alphabet entries, the solution and the status as they   *)
(* were: the session is at the same readline with the same counter.        *)
(***************************************************************************)
C1_RejectedLineChangesNothing ==
    [][(pc = "read" /\ line' # NULL /\ RefRejected(line'))
         => /\ i' = i
            /\ alphabet' = alphabet
            /\ solution' = solution
            /\ pc' = "read"
            /\ UNCHANGED <<scored, revealed, ret>>]_vars

\* on the last attempt, after a 5-letter line outside the list was rejected
C1_Witness ==
    /\ pc = "read"
    /\ i = GUESSES - 1
    /\ line = zebra
    /\ msg = "Not in word list"

(***************************************************************************)
(* C2, as amended.  At any attempt, reading the line equal to the solution *)
(* when the valid-guess list holds that line starts its coloring; the      *)
(* coloring of it ends in Won, with the counter and the reveal count as    *)
(* they were; Won is entered only by the solution, with nothing revealed;  *)
(* and in Won no step is taken.                                            *)
(***************************************************************************)
C2_SolutionWins ==
    /\ [](pc = "ret_won" => line = SolutionText /\ revealed = 0 /\ ret = 0)
    /\ [][(pc = "read" /\ line' = SolutionText /\ SolutionText \in RefCorpus)
            => pc' = "color" /\ i' = i /\ revealed' = revealed]_vars
    /\ [][(pc = "color" /\ line = SolutionText)
            => /\ pc' = IF pos < LETTERS THEN "color" ELSE "ret_won"
               /\ i' = i
               /\ revealed' = revealed]_vars
    /\ [][pc = "ret_won" => FALSE]_vars

\* won on the sixth attempt
C2_Witness ==
    /\ pc = "ret_won"
    /\ i = GUESSES - 1
    /\ line = SolutionText

(***************************************************************************)
(* C2, as stated.  At any attempt, reading the line equal to the solution  *)
(* starts its coloring, which ends in Won with the counter and the reveal  *)
(* count as they were; in Won no step is taken.                            *)
(***************************************************************************)
C2_Original ==
    /\ [](pc = "ret_won" => line = SolutionText /\ revealed = 0 /\ ret = 0)
    /\ [][(pc = "read" /\ line' = SolutionText)
            => pc' = "color" /\ i' = i /\ revealed' = revealed]_vars
    /\ [][(pc = "color" /\ line = SolutionText)
            => /\ pc' = IF pos < LETTERS THEN "color" ELSE "ret_won"
               /\ i' = i
               /\ revealed' = revealed]_vars
    /\ [][pc = "ret_won" => FALSE]_vars

(***************************************************************************)
(* C3.  The session is Lost exactly when six scored guesses differ from    *)
(* the solution; the counter goes up one at a time, so Lost is reached     *)
(* through Playing(0), ..., Playing(5); the solution is printed once, on   *)
(* the step into Lost, and never in any other state.                       *)
(***************************************************************************)
C3_SixMissesLose ==
    /\ [](/\ revealed = (IF pc = "ret_end" THEN 1 ELSE 0)
          /\ (pc = "ret_end" <=> Misses = GUESSES)
          /\ (pc = "ret_end" => i = GUESSES /\ Len(scored) = GUESSES)
          /\ (pc = "read" => i = Misses /\ i < GUESSES))
    /\ [][/\ (i' = i \/ i' = i + 1)
          /\ (revealed' # revealed => pc = "color" /\ pc' = "ret_end")]_vars

\* lost, with rejected lines in between
C3_Witness ==
    /\ pc = "ret_end"
    /\ revealed = 1
    /\ msg = "Wrong length"

(***************************************************************************)
(* C4.  A step in which readline returns NULL ends the session with        *)
(* return value 0, at any attempt, and changes neither the counter, the    *)
(* alphabet, the reveal count nor the scored guesses; after it no step is  *)
(* taken and nothing was revealed.                                         *)
(***************************************************************************)
C4_EofTerminates ==
    /\ [](pc = "ret_eof" => revealed = 0 /\ ret = 0 /\ line = NULL)
    /\ [][(pc = "read" /\ line' = NULL)
            => /\ pc' = "ret_eof"
               /\ ret' = 0
               /\ UNCHANGED <<i, alphabet, revealed, scored, quals, y>>]_vars
    /\ [][pc = "ret_eof" => FALSE]_vars

\* end of input on the last attempt, after guesses were scored
C4_Witness ==
    /\ pc = "ret_eof"
    /\ i = GUESSES - 1
    /\ Len(scored) = GUESSES - 1

(***************************************************************************)
(* C5.  Every quality the scoring loop has printed for position p of the   *)
(* guess is the reference quality of guess[p] against the solution:        *)
(* RightPlace iff the letters agree at p, else WrongPlace iff some place j *)
(* of the solution holds the letter and the guess is wrong at j, else      *)
(* Wrong.                                                                  *)
(***************************************************************************)
C5_QualifyMatchesReference ==
    \A p \in 1..Len(quals) : quals[p] = RefQualify(line, SolutionText, p - 1)

\* all five positions scored, all three qualities among them
C5_Witness ==
    /\ pos = LETTERS
    /\ {quals[p] : p \in 1..Len(quals)} = Determined

(***************************************************************************)
(* C6.  overrides agrees with the decision table on every current quality  *)
(* and every determined proposed quality, and so does the result of every  *)
(* call the tracker made.                                                  *)
(***************************************************************************)
C6_OverridesTable ==
    /\ \A cur \in GuessQuality, prop \in Determined :
          overrides(cur, prop) = RefOverrides(cur, prop)
    /\ (ovNew \in Determined => ovRes = RefOverrides(ovOrig, ovNew))

\* a yellow letter was proposed green and the call allowed it
C6_Witness ==
    /\ ovOrig = "WrongPlace"
    /\ ovNew = "RightPlace"
    /\ ovRes = TRUE
    /\ \E c \in 0..(OvLetters - 1) : alphabet[c].quality = "RightPlace"

(***************************************************************************)
(* C7.  Every alphabet entry starts at Unknown and no step, a step inside  *)
(* the coloring of a guess included, lowers the quality of any letter in   *)
(* the order Unknown < Wrong < WrongPlace < RightPlace.                    *)
(***************************************************************************)
C7_AlphabetMonotone ==
    /\ \A c \in 0..(ALPHABET_SZ - 1) : alphabet[c].quality = "Unknown"
    /\ [][\A c \in 0..(ALPHABET_SZ - 1) :
            Rank(alphabet'[c].quality) >= Rank(alphabet[c].quality)]_vars

\* inside a guess, Wrong was proposed for a green letter and refused
C7_Witness ==
    /\ pc = "color"
    /\ ovOrig = "RightPlace"
    /\ ovNew = "Wrong"
    /\ ovRes = FALSE
    /\ \E c \in 0..(ALPHABET_SZ - 1) : alphabet[c].quality = "RightPlace"

(***************************************************************************)
(* C8.  With solution crane and nothing scored before, the guess trace is  *)
(* scored Wrong, RightPlace, RightPlace, WrongPlace, RightPlace, and the   *)
(* alphabet then holds t Wrong, r, a and e RightPlace, c WrongPlace and    *)
(* the other 21 letters Unknown.                                           *)
(***************************************************************************)
C8_CraneTrace ==
    (/\ SolutionText = crane
     /\ line = trace
     /\ scored = <<>>
     /\ pc = "color"
     /\ pos = LETTERS)
    => /\ quals = <<"Wrong", "RightPlace", "RightPlace", "WrongPlace", "RightPlace">>
       /\ QualityOf(116) = "Wrong"
       /\ QualityOf(114) = "RightPlace"
       /\ QualityOf(97) = "RightPlace"
       /\ QualityOf(99) = "WrongPlace"
       /\ QualityOf(101) = "RightPlace"
       /\ \A c \in 0..(ALPHABET_SZ - 1) :
             (c + ASCII_A) \notin {116, 114, 97, 99, 101}
                => alphabet[c].quality = "Unknown"

\* trace was colored as the first guess against crane
C8_Witness ==
    /\ SolutionText = crane
    /\ line = trace
    /\ scored = <<>>
    /\ pc = "color"
    /\ pos = LETTERS

(***************************************************************************)
(* C9.  The attempt counter is in 0..6 and equals the number of scored     *)
(* guesses that differ from the solution; it changes only by +1, on the    *)
(* step that completes the scoring of a valid guess other than the         *)
(* solution; the session is Lost exactly when it is 6; and at most 6       *)
(* guesses are scored, the one being colored included.                     *)
(***************************************************************************)
C9_AttemptCounter ==
    /\ [](/\ i \in 0..GUESSES
          /\ i = Misses
          /\ (pc = "ret_end" <=> i = GUESSES)
          /\ Len(scored) + (IF pc = "color" THEN 1 ELSE 0) <= GUESSES)
    /\ [][i' # i
            => /\ i' = i + 1
               /\ scored' = Append(scored, line)
               /\ line \in RefCorpus
               /\ Len(line) = LETTERS
               /\ line # SolutionText]_vars

\* three misses, then a rejected line
C9_Witness ==
    /\ pc = "read"
    /\ i = 3
    /\ Len(scored) = 3
    /\ msg = "Not in word list"
    /\ line = zebra

(***************************************************************************)
(* C10.  When the loop over sv_chop_delim has ended, the views it yielded  *)
(* are exactly the maximal delimiter-free runs of the buffer, in order (so *)
(* none is empty and none holds the delimiter).                            *)
(***************************************************************************)
C10_YieldsMaximalRuns ==
    cpc = "done" => YieldedBytes = RefRuns(mem, delim)

(***************************************************************************)
(* C11.  After the load of a buffer, valid(w) is true exactly when w is    *)
(* one of the non-empty newline-delimited lines of the buffer, the last    *)
(* line of a buffer without final newline included.                        *)
(***************************************************************************)
C11_ContainsIffLine ==
    call.op = "valid" => res.ret = (call.word \in RefCorpus)

(***************************************************************************)
(* C12.  After the load of a buffer, words.len is the number of views the  *)
(* tokenizer loop stored, and the entries 0..words.len-1 are the non-empty *)
(* lines of the buffer in file order, each a view inside the buffer.       *)
(***************************************************************************)
C12_CorpusIsTheLines ==
    /\ words.len = Len(yielded)
    /\ \A k \in 1..words.len :
          words.array[k].ptr + words.array[k].len <= Len(mmap_register[WORDS_INDEX])
    /\ [k \in 1..words.len |-> SvBytes(mmap_register[WORDS_INDEX], words.array[k])]
         = RefRuns(mmap_register[WORDS_INDEX], NL)

\* the smaller and the larger of two integers
MinOf(a, b) == IF a <= b THEN a ELSE b
MaxOf(a, b) == IF a >= b THEN a ELSE b

\* the start indices, from 0, at which the bytes of n occur in h
Occurrences(h, n) ==
    {k \in 0..(Len(h) - Len(n)) : SubSeq(h, k + 1, k + Len(n)) = n}

\* leftmost and rightmost occurrence, or the not-found sentinel
RefFind(h, n) ==
    IF n = <<>> \/ Len(n) > Len(h) \/ Occurrences(h, n) = {}
    THEN SV_END_POS
    ELSE CHOOSE k \in Occurrences(h, n) : \A o \in Occurrences(h, n) : k <= o

RefFindLast(h, n) ==
    IF n = <<>> \/ Len(n) > Len(h) \/ Occurrences(h, n) = {}
    THEN SV_END_POS
    ELSE CHOOSE k \in Occurrences(h, n) : \A o \in Occurrences(h, n) : k >= o

(***************************************************************************)
(* C13.  For a view of length L and every size_t beg and len, sv_substr    *)
(* returns a view inside the original: empty when beg > L or len = 0,      *)
(* otherwise starting at beg with length min(len, L - beg), its end never  *)
(* past L.                                                                 *)
(***************************************************************************)
C13_SubstrInside ==
    call.op = "sv_substr"
    => LET L == chopIn.len
           r == res.sv
       IN  /\ (call.beg > L \/ call.len = 0) => r.len = 0
           /\ ~(call.beg > L \/ call.len = 0)
                => /\ r.ptr = chopIn.ptr + call.beg
                   /\ r.len = MinOf(call.len, L - call.beg)
           /\ r.ptr + r.len <= chopIn.ptr + L

(***************************************************************************)
(* C14.  For a view of length L and every size_t buflen, sv_to_cstr copies *)
(* min(L, buflen - 1) bytes, writes the terminator right after them, and   *)
(* writes to no index at or beyond buflen.                                 *)
(***************************************************************************)
C14_ToCstrInside ==
    call.op = "sv_to_cstr"
    => /\ res.copied = MinOf(chopIn.len, call.buflen - 1)
       /\ res.terminator = res.copied
       /\ res.terminator < call.buflen

(***************************************************************************)
(* C15.  sv_idx_long returns the smallest and sv_last_idx_long the largest *)
(* index at which the needle occurs in the view, both SV_END_POS when it   *)
(* does not occur, is empty or is longer than the view; the scans end and  *)
(* read no index outside 0..len-1.                                         *)
(***************************************************************************)
C15_FindFirstAndLast ==
    /\ call.op = "sv_idx_long"
         => /\ res.ret = RefFind(mem, call.search)
            /\ res.reads \subseteq 0..(Len(mem) - 1)
    /\ call.op = "sv_last_idx_long"
         => /\ res.ret = RefFindLast(mem, call.search)
            /\ res.reads \subseteq 0..(Len(mem) - 1)

\* the backwards scan read index 0, wrapped below it and found nothing
C15_Witness ==
    /\ call.op = "sv_last_idx_long"
    /\ call.search # <<>>
    /\ res.ret = SV_END_POS
    /\ 0 \in res.reads
    /\ Len(mem) = MaxSvLen

(***************************************************************************)
(* C16.  For a view of length L and every size_t n, sv_chopl leaves the    *)
(* last max(0, L - n) bytes and sv_chopr the first max(0, L - n) bytes;    *)
(* the length stays in 0..L and is 0 for n >= L.                           *)
(***************************************************************************)
C16_ChopSaturates ==
    /\ call.op = "sv_chopl"
         => /\ res.sv.len = MaxOf(0, chopIn.len - call.n)
            /\ SvBytes(mem, res.sv)
                 = SubSeq(mem, Len(mem) - res.sv.len + 1, Len(mem))
    /\ call.op = "sv_chopr"
         => /\ res.sv.len = MaxOf(0, chopIn.len - call.n)
            /\ SvBytes(mem, res.sv) = SubSeq(mem, 1, res.sv.len)

\* more bytes chopped from the front than the view holds
C16_Witness ==
    /\ call.op = "sv_chopl"
    /\ chopIn.len = MaxSvLen
    /\ call.n > chopIn.len
    /\ res.sv.len = 0

(***************************************************************************)
(* C17.  Every non-empty submitted line gets one outcome, decided in this  *)
(* order: length other than 5 gives "Wrong length", whether or not the     *)
(* corpus contains the line; otherwise a line the corpus does not contain  *)
(* gives "Not in word list"; otherwise the line is scored.  A scored line  *)
(* produces no reason string and a rejected line is not scored.            *)
(***************************************************************************)
C17_OneOutcomeInOrder ==
    [][(pc = "read" /\ pc' # "ret_eof" /\ line' # <<>>)
       => IF Len(line') # LETTERS
          THEN /\ msg' = "Wrong length"
               /\ pc' = "read"
               /\ scored' = scored /\ alphabet' = alphabet
          ELSE IF line' \notin RefCorpus
          THEN /\ msg' = "Not in word list"
               /\ pc' = "read"
               /\ scored' = scored /\ alphabet' = alphabet
          ELSE /\ pc' = "color"
               /\ msg' = msg]_vars

\* a line of the corpus that is not five letters long was rejected for its
\* length
C17_Witness ==
    /\ pc = "read"
    /\ line = cat
    /\ line \in RefCorpus
    /\ msg = "Wrong length"

\* the places of the guess scored WrongPlace that hold the letter c
WrongPlaces(c) == {p \in 1..Len(quals) : line[p] = c /\ quals[p] = "WrongPlace"}

\* the places of the solution that hold the letter c
SolutionPlaces(c) == {j \in 1..Len(SolutionText) : SolutionText[j] = c}

(***************************************************************************)
(* C18.  Scoring keeps no budget of solution occurrences: once a guess is  *)
(* scored, a letter the solution holds at a place the guess got wrong is   *)
(* WrongPlace at every place where the guess holds it wrongly, however few *)
(* places of the solution hold it; so a letter occurring once in the       *)
(* solution can be WrongPlace at two or more places of one guess.          *)
(***************************************************************************)
C18_NoOccurrenceBudget ==
    pos = LETTERS
    => \A c \in QChars :
          WrongPlaces(c)
            = IF \E j \in SolutionPlaces(c) : line[j] # c
              THEN {p \in 1..LETTERS : line[p] = c /\ SolutionText[p] # c}
              ELSE {}

\* a letter that the solution holds once is WrongPlace at two places or more
C18_Witness ==
    /\ pos = LETTERS
    /\ \E c \in QChars :
          /\ Cardinality(SolutionPlaces(c)) = 1
          /\ Cardinality(WrongPlaces(c)) >= 2

\* the letters of the guesses scored so far
ScoredLetters == {scored[k][p] : k \in 1..Len(scored), p \in 1..LETTERS}

\* the letters of the solution
SolutionLetters == {SolutionText[j] : j \in 1..Len(SolutionText)}

(***************************************************************************)
(* C19.  At every turn boundary, which is every state outside the coloring *)
(* of a guess, the alphabet is sound for the solution: a Wrong letter is   *)
(* not in the solution, a WrongPlace or RightPlace letter is, a letter is  *)
(* Unknown iff no scored guess holds it, and once the session is won every *)
(* letter of the solution is RightPlace.                                   *)
(***************************************************************************)
C19_AlphabetSound ==
    pc # "color"
    => \A c \in 0..(ALPHABET_SZ - 1) :
          LET ch == ASCII_A + c
              q == alphabet[c].quality
          IN  /\ q = "Wrong" => ch \notin SolutionLetters
              /\ q \in {"WrongPlace", "RightPlace"} => ch \in SolutionLetters
              /\ q = "Unknown" <=> ch \notin ScoredLetters
              /\ (pc = "ret_won" /\ ch \in SolutionLetters) => q = "RightPlace"

\* won after a guess that held a letter of the solution once too often, and
\* a guess that held a letter of the solution at the wrong place
C19_Witness ==
    /\ pc = "ret_won"
    /\ SolutionText = crane
    /\ scored = <<eerie, trace, crane>>
    /\ QualityOf(101) = "RightPlace"
    /\ QualityOf(99) = "RightPlace"
    /\ QualityOf(105) = "Wrong"
    /\ QualityOf(122) = "Unknown"

(***************************************************************************)
(* C20.  While a buffer is loaded, every view the loop stores goes to an   *)
(* index below the capacity of the array, which is the number of newline   *)
(* bytes of the buffer; and when the loop has ended, the index rand() %    *)
(* lines of the solution is defined and designates an entry the loop       *)
(* stored, whatever rand() returns.                                        *)
(***************************************************************************)
C20_StoresInsideCapacity ==
    delim = NL
    => /\ \A n \in 1..Len(yielded) : n - 1 < count_lines(mem)
       /\ cpc = "done"
            => /\ count_lines(mem) > 0
               /\ \A r \in 0..RandMax : r % count_lines(mem) < Len(yielded)

(***************************************************************************)
(* C21.  The assertion of overrides holds in every reachable state: the    *)
(* program never aborts on it, qualify_guess never returns Unknown, every  *)
(* quality the tracker was asked to apply is determined, and no alphabet   *)
(* entry goes back to Unknown once it is determined.                       *)
(***************************************************************************)
C21_AssertionHolds ==
    /\ [](/\ pc # "abort"
          /\ \A p \in 1..Len(quals) : quals[p] \in Determined
          /\ (pc = "color" /\ pos < LETTERS)
               => overrides_assert(qualify_guess(line, pos))
          /\ (quals # <<>> \/ scored # <<>>) => overrides_assert(ovNew))
    /\ [][\A c \in 0..(ALPHABET_SZ - 1) :
            alphabet[c].quality # "Unknown"
            => alphabet'[c].quality # "Unknown"]_vars

\* six guesses were scored and the last call of the tracker was asked to
\* apply Wrong to a letter that was determined before
C21_Witness ==
    /\ pc = "ret_end"
    /\ Len(scored) = GUESSES
    /\ ovOrig \in Determined
    /\ ovNew = "Wrong"
    /\ \E c \in 0..(ALPHABET_SZ - 1) : alphabet[c].quality = "Wrong"

\* a call of readline that returns end of input or a valid guess
ReadProgress == ReadLine /\ pc' # "read"

\* main has returned: won, lost, or at the end of the input
Terminated == pc \in {"ret_won", "ret_end", "ret_eof"}

(***************************************************************************)
(* C22.  If the input ends or keeps supplying valid guesses, the session   *)
(* eventually returns (won, lost or at end of input), and no session       *)
(* scores more than 6 guesses.  A rejected or empty line does not end the  *)
(* session and leaves the attempt counter and the scored guesses as they   *)
(* were, so rejected lines alone keep the session at the same attempt.     *)
(***************************************************************************)
C22_TerminatesOnFairInput ==
    /\ SF_vars(ReadProgress) => <>Terminated
    /\ [](Len(scored) <= GUESSES)
    /\ [][(pc = "read" /\ line' # NULL /\ RefRejected(line'))
            => /\ pc' = "read"
               /\ ~Terminated'
               /\ i' = i
               /\ Len(scored') = Len(scored)]_vars

\* won with the sixth scored guess, rejected lines having come before it
C22_Witness ==
    /\ pc = "ret_won"
    /\ Len(scored) = GUESSES
    /\ i = GUESSES - 1
    /\ msg = "Not in word list"

====
